---- MODULE Spec2Model ----
(***************************************************************************)
(* The operation planning and execution engine of the Shopify assistant:  *)
(* createOperationPlan, executeStep, getNextExecutableStep,                *)
(* updateOperationContext and executeOperationPlan.                        *)
(*                                                                         *)
(* One caller builds a plan and drives it any number of times.  An action *)
(* is the code that runs between two suspension points (await) of a drive.*)
(***************************************************************************)
EXTENDS Integers, Sequences, FiniteSets, TLC

\* ---------------------------------------------------------------- bounds
MaxSteps == 2          \* tool calls in one plan
MaxRetryCount == 5     \* executeOperationPlan is not called again once a
                       \* step's retryCount has reached this value
MaxLen == 6            \* characters of the params field given to
                       \* processStepParameters on its own

\* ------------------------------------------------------ program constants
MaxRetries == 3        \* maxRetries given to every step by createOperationPlan

\* ------------------------------------------------------------ vocabulary
\* caller-supplied tool call ids, by position in the request
CallIds == <<"call_1", "call_2", "call_3", "call_4">>
\* an id no step of the plan has
MissingId == "call_x"

\* the tools awaited by executeStep
ShopifyTools == {"execute_query", "execute_mutation", "introspect_schema"}
\* the tools executeStep has a branch for
RegisteredTools == ShopifyTools \cup {"web_search"}
\* the tool names the requests of the model carry: an awaited tool, the tool
\* answered without a call, and a name executeStep has no branch for
ToolNames == {"execute_query", "web_search", "bogus_tool"}

\* Opaque successful tool results, and the top-level keys of result.data
\* (the empty function when result.data is undefined).  One key of the data
\* payload is also the id of a step.
Results == {"res_nodata", "res_data"}
DataOf(r) ==
  IF r = "res_data"
  THEN ("variantId" :> "gid_1") @@ ("call_1" :> "gid_2")
  ELSE << >>

\* the ways an awaited tool can fail: a return carrying {error}, or an
\* exception in the try block (a rejected tool promise, or the TypeError of
\* reading result.error on a null return: both reach the same catch block
\* and differ only in the text of error.message)
FailureKinds == {"error_result", "thrown"}
MessageOf(kind) ==
  IF kind = "error_result" THEN "tool reported error" ELSE "exception message"

\* the message of the TypeError of `result.error` on a null or undefined
\* tool return
NullResultMessage == "Cannot read properties of null"
WebSearchMessage == "Web search is not available"
UnknownToolMessage == "Unknown tool"
\* the message of the TypeError or SyntaxError of processStepParameters
ResolveErrorMessage == "parameters could not be processed"

\* step.result and step.error before they are assigned
NoResult == "undefined"
NoError == [kind |-> "undefined", retry |-> 0, max |-> 0, message |-> ""]
\* `Error (retry n/max): message`
RetryError(n, m, msg) == [kind |-> "retry", retry |-> n, max |-> m, message |-> msg]
\* error.message
FinalError(msg) == [kind |-> "final", retry |-> 0, max |-> 0, message |-> msg]

\* getOperationDebugInfo has not been called
NoDebugInfo == [called |-> FALSE, status |-> "", steps |-> << >>, context |-> << >>]

\* dependsOn is optional: absent, or a list of step ids
NoDependsOn == [defined |-> FALSE, ids |-> {}]
DependsOn(S) == [defined |-> TRUE, ids |-> S]

\* ------------------------------------------- JSON text and the resolver
\* A text is a sequence of atoms.  An atom is one character, or a word that
\* stands for its characters (a word holds no brace, quote or backslash, and
\* no context key is made of several atoms).
Q == "\""
BS == "\\"

\* JSON.stringify of the characters of a string, without the outer quotes
RECURSIVE Escape(_)
Escape(t) ==
  IF t = << >> THEN << >>
  ELSE (IF Head(t) \in {Q, BS} THEN <<BS, Head(t)>> ELSE <<Head(t)>>)
         \o Escape(Tail(t))

\* The values a context can hold, with their JSON type and their text: the
\* characters of a string, the digits of a number, the JSON text of an object.
StringValues == {"gid_1", "gid_2", "say\"hi\""}
NumberValues == {"123", "7"}
ObjectValues == {"res_nodata", "res_data"}

ValueText(v) ==
  CASE v = "say\"hi\""  -> <<"say", Q, "hi", Q>>
    [] v = "123"        -> <<"1", "2", "3">>
    [] v = "res_nodata" -> <<"{", "}">>
    [] v = "res_data"   -> <<"{", Q, "data", Q, ":", "{",
                               Q, "variantId", Q, ":", Q, "gid_1", Q, ",",
                               Q, "call_1", Q, ":", Q, "gid_2", Q, "}", "}">>
    [] OTHER            -> <<v>>

\* JSON.stringify(context[key])
StringifyValue(v) ==
  IF v \in StringValues THEN <<Q>> \o Escape(ValueText(v)) \o <<Q>>
  ELSE ValueText(v)

\* text.slice(1, -1)
SliceInner(t) == SubSeq(t, 2, Len(t) - 1)

\* params is an object with one string field; the model keeps the characters
\* of that field.  JSON.stringify(params):
FieldName == "query"
ParamsPrefix == <<"{", Q, FieldName, Q, ":", Q>>
ParamsSuffix == <<Q, "}">>
StringifyParams(t) == ParamsPrefix \o Escape(t) \o ParamsSuffix

\* Properties every context inherits from Object.prototype: context[key] is
\* not undefined for them.  JSON.stringify of a function is undefined (and
\* .slice on it throws); of Object.prototype it is the text {}.
InheritedFunctionKeys == {"constructor"}
InheritedObjectKeys == {"__proto__"}

\* context[key] !== undefined, for the key between the braces of a match
KeyDefined(ctx, key) ==
  /\ Len(key) = 1
  /\ key[1] \in DOMAIN ctx \cup InheritedFunctionKeys \cup InheritedObjectKeys

\* JSON.stringify(context[key]).slice(1, -1); <<"TypeError">> when
\* JSON.stringify returns undefined
ReplacementThrows(ctx, key) ==
  key[1] \notin DOMAIN ctx /\ key[1] \in InheritedFunctionKeys

Replacement(ctx, key) ==
  IF key[1] \in DOMAIN ctx THEN SliceInner(StringifyValue(ctx[key[1]]))
  ELSE SliceInner(<<"{", "}">>)

\* the longest prefix of t without a closing brace: ([^}]+)
RECURSIVE KeyRun(_)
KeyRun(t) ==
  IF t = << >> \/ Head(t) = "}" THEN << >>
  ELSE <<Head(t)>> \o KeyRun(Tail(t))

\* does /{{([^}]+)}}/ match at the start of t, and with which key
MatchKey(t) == KeyRun(SubSeq(t, 3, Len(t)))
MatchesAt(t) ==
  /\ Len(t) >= 5
  /\ t[1] = "{" /\ t[2] = "{"
  /\ LET k == MatchKey(t)
     IN  /\ Len(k) >= 1
         /\ Len(t) >= Len(k) + 4
         /\ t[Len(k) + 3] = "}" /\ t[Len(k) + 4] = "}"

\* paramsStr.replace(/{{([^}]+)}}/g, callback): the replaced text
RECURSIVE ReplaceTokens(_, _)
ReplaceTokens(t, ctx) ==
  IF t = << >> THEN << >>
  ELSE IF MatchesAt(t)
  THEN LET k == MatchKey(t)
           rest == SubSeq(t, Len(k) + 5, Len(t))
       IN  (IF KeyDefined(ctx, k)
            THEN Replacement(ctx, k)
            ELSE SubSeq(t, 1, Len(k) + 4))
             \o ReplaceTokens(rest, ctx)
  ELSE <<Head(t)>> \o ReplaceTokens(Tail(t), ctx)

\* does a callback of the replace throw
RECURSIVE ReplaceThrows(_, _)
ReplaceThrows(t, ctx) ==
  IF t = << >> THEN FALSE
  ELSE IF MatchesAt(t)
  THEN LET k == MatchKey(t)
       IN  \/ KeyDefined(ctx, k) /\ ReplacementThrows(ctx, k)
           \/ ReplaceThrows(SubSeq(t, Len(k) + 5, Len(t)), ctx)
  ELSE ReplaceThrows(Tail(t), ctx)

\* The characters of a JSON string read from t, up to its closing quote:
\* [ok, chars, rest]; ok is FALSE on a bad escape or a missing closing quote
RECURSIVE ReadString(_)
ReadString(t) ==
  IF t = << >> THEN [ok |-> FALSE, chars |-> << >>, rest |-> << >>]
  ELSE IF Head(t) = Q THEN [ok |-> TRUE, chars |-> << >>, rest |-> Tail(t)]
  ELSE IF Head(t) = BS
  THEN IF Len(t) >= 2 /\ t[2] \in {Q, BS}
       THEN LET r == ReadString(SubSeq(t, 3, Len(t)))
            IN  [r EXCEPT !.chars = <<t[2]>> \o @]
       ELSE [ok |-> FALSE, chars |-> << >>, rest |-> << >>]
  ELSE LET r == ReadString(Tail(t))
       IN  [r EXCEPT !.chars = <<Head(t)>> \o @]

\* JSON.parse of a text that is read back as params: the field's characters,
\* or a SyntaxError.  (No text the model builds parses to another shape.)
ParseParams(t) ==
  IF Len(t) >= Len(ParamsPrefix) /\ SubSeq(t, 1, Len(ParamsPrefix)) = ParamsPrefix
  THEN LET r == ReadString(SubSeq(t, Len(ParamsPrefix) + 1, Len(t)))
       IN  IF r.ok /\ r.rest = <<"}">>
           THEN [threw |-> FALSE, params |-> r.chars]
           ELSE [threw |-> TRUE, params |-> << >>]
  ELSE [threw |-> TRUE, params |-> << >>]

\* processStepParameters(params, context): the resolved params, or an
\* exception (TypeError in the callback, SyntaxError in JSON.parse)
\* (paramsStr and the replaced text are each computed once: they are bound
\* as the element of a one-element set)
processStepParameters(t, ctx) ==
  LET outcomes ==
        {IF ReplaceThrows(paramsStr, ctx)
         THEN {[threw |-> TRUE, params |-> << >>]}
         ELSE {ParseParams(replaced) :
                 replaced \in {ReplaceTokens(paramsStr, ctx)}}
           : paramsStr \in {StringifyParams(t)}}
  IN  CHOOSE out \in UNION outcomes : TRUE

VARIABLES
  steps,     \* plan.steps: sequence of OperationStep
  status,    \* plan.status
  context,   \* plan.context: key -> value
  pc,        \* where the drive is: "idle" (not in executeOperationPlan),
             \* "tool" (executeStep awaits a tool), "resolved" / "rejected"
             \* (executeOperationPlan awaits the settled executeStep promise)
  cur,       \* index of nextStep while the drive is suspended, else 0
  invoked,   \* per step: how many times its tool has been invoked
  before,    \* the plan as it was when executeOperationPlan was last called
  sent,      \* per step: the resolved params of its last tool invocation
  rin,       \* processStepParameters on its own: the arguments of a call
  rout,      \* ... and what the call returned
  bin,       \* createOperationPlan on its own: the toolCalls of a call
  bout,      \* ... and what the call returned
  debug,     \* getOperationDebugInfo on its own: what the call returned
  flow,            \* USE_RESPONSES_API: "responses", or "operations"
  chatHistories,   \* session.server.ts: chatId -> messages
  activeOperations,\* session.server.ts: chatId -> plan (a reference)
  plans,           \* the plan objects of the message flow, by reference
  generated,       \* how many chat ids generateSessionId has returned
  client,          \* the browser: its cookie, how many messages it sent,
                   \* how many it may have in flight (its windows)
  reqs,            \* the requests in flight: the locals of the route action
  track            \* what the last response carried; were turns sequential

engineVars == <<steps, status, context, pc, cur, invoked, before, sent>>
\* the variables the engine's actions leave alone
sessionVars ==
  <<flow, chatHistories, activeOperations, plans, generated, client, reqs, track>>
otherVars == <<rin, rout, bin, bout, debug, sessionVars>>
vars == <<engineVars, otherVars>>

\* ------------------------------------------------------------ the engine

\* A tool call of the assistant's response: [id, type, name, arguments],
\* arguments being JSON text.
ToolCall(id, type, name, t) ==
  [id |-> id, type |-> type, name |-> name, arguments |-> StringifyParams(t)]

\* createOperationPlan: the step built from one tool call
NewStep(toolCall) ==
  [id |-> toolCall.id, toolName |-> toolCall.name,
   params |-> ParseParams(toolCall.arguments).params,
   dependsOn |-> NoDependsOn,
   status |-> "pending", result |-> NoResult, error |-> NoError,
   retryCount |-> 0, maxRetries |-> MaxRetries]

\* mutant: a step is built from every call, whatever its type
IsFunctionCallAlways(toolCall) == TRUE

\* the map returns null for a call that is not a function call
IsFunctionCall(toolCall) == toolCall.type = "function"

\* JSON.parse(toolCall.function.arguments) throws in the map
CreateThrows(toolCalls) ==
  \E i \in 1..Len(toolCalls) :
    IsFunctionCall(toolCalls[i]) /\ ParseParams(toolCalls[i].arguments).threw

\* toolCalls.map(...).filter(step => step !== null), for arguments that parse
RECURSIVE MapFilter(_)
MapFilter(toolCalls) ==
  IF toolCalls = << >> THEN << >>
  ELSE (IF IsFunctionCall(Head(toolCalls))
        THEN <<NewStep(Head(toolCalls))>>
        ELSE << >>) \o MapFilter(Tail(toolCalls))

createOperationPlan(toolCalls) ==
  [steps   |-> MapFilter(toolCalls),
   status  |-> "planning",
   context |-> << >>]

\* plan.steps.find(s => s.id === depId): the first step with that id, or 0
RECURSIVE FindStep(_, _, _)
FindStep(ss, depId, i) ==
  IF i > Len(ss) THEN 0
  ELSE IF ss[i].id = depId THEN i
  ELSE FindStep(ss, depId, i + 1)

\* mutant: a dependency on an id no step has counts as met
DependencyMetOrMissing(ss, depId) ==
  LET d == FindStep(ss, depId, 1)
  IN  d = 0 \/ ss[d].status = "completed"

\* depStep && depStep.status === 'completed'
DependencyMet(ss, depId) ==
  LET d == FindStep(ss, depId, 1)
  IN  d # 0 /\ ss[d].status = "completed"

\* step.dependsOn.every(...)
AllDependenciesMet(ss, step) ==
  \A depId \in step.dependsOn.ids : DependencyMet(ss, depId)

\* mutant: failed steps are skipped too
SkippedStatusAlsoFailed(s) == s \in {"completed", "running", "failed"}

\* mutant: the scan skips completed steps only
SkippedStatusCompletedOnly(s) == s = "completed"

\* `Skip completed or running steps`
SkippedStatus(s) == s \in {"completed", "running"}

\* getNextExecutableStep: the for loop from index i; 0 stands for null
RECURSIVE ScanFrom(_, _)
ScanFrom(ss, i) ==
  IF i > Len(ss) THEN 0
  ELSE IF SkippedStatus(ss[i].status) THEN ScanFrom(ss, i + 1)
  ELSE IF ss[i].dependsOn.defined /\ ~AllDependenciesMet(ss, ss[i])
       THEN ScanFrom(ss, i + 1)
  ELSE i

\* mutant: the scan returns the last step that qualifies, not the first
getNextExecutableStepLast(ss) ==
  LET C == {i \in 1..Len(ss) :
              /\ ~SkippedStatus(ss[i].status)
              /\ ss[i].dependsOn.defined => AllDependenciesMet(ss, ss[i])}
  IN  IF C = {} THEN 0 ELSE CHOOSE i \in C : \A j \in C : j <= i

getNextExecutableStep(ss) == ScanFrom(ss, 1)

\* mutant: the success path stores the result and leaves the step running
CompleteStepStillRunning(step, r) ==
  [step EXCEPT !.result = r]

\* mutant: the success path clears the error of the earlier attempts
CompleteStepClearingError(step, r) ==
  [step EXCEPT !.status = "completed", !.result = r, !.error = NoError]

\* executeStep, success path: step.status = 'completed'; step.result = result
CompleteStep(step, r) ==
  [step EXCEPT !.status = "completed", !.result = r]

\* mutant: the last allowed retry already fails the step
FailStepAtThreshold(step, msg) ==
  LET n == step.retryCount + 1
  IN  IF n >= step.maxRetries
      THEN [step EXCEPT !.retryCount = n, !.status = "failed",
                        !.error = FinalError(msg)]
      ELSE [step EXCEPT !.retryCount = n, !.status = "pending",
                        !.error = RetryError(n, step.maxRetries, msg)]

\* mutant: the catch block never gives a step up
FailStepNeverFailing(step, msg) ==
  LET n == step.retryCount + 1
  IN  [step EXCEPT !.retryCount = n, !.status = "pending",
                   !.error = RetryError(n, step.maxRetries, msg)]

\* mutant: a null return of the tool passes for a result
FailStepUnlessNull(step, msg) ==
  LET n == step.retryCount + 1
  IN  IF msg = NullResultMessage
      THEN [step EXCEPT !.status = "completed", !.result = "null"]
      ELSE IF n > step.maxRetries
      THEN [step EXCEPT !.retryCount = n, !.status = "failed",
                        !.error = FinalError(msg)]
      ELSE [step EXCEPT !.retryCount = n, !.status = "pending",
                        !.error = RetryError(n, step.maxRetries, msg)]

\* executeStep, catch block
FailStep(step, msg) ==
  LET n == step.retryCount + 1
  IN  IF n > step.maxRetries
      THEN [step EXCEPT !.retryCount = n, !.status = "failed",
                        !.error = FinalError(msg)]
      ELSE [step EXCEPT !.retryCount = n, !.status = "pending",
                        !.error = RetryError(n, step.maxRetries, msg)]

\* mutant: only query results have their data copied
CopiesDataQueryOnly(toolName) == toolName = "execute_query"

\* updateOperationContext: the tools whose result data is copied
\* (`If this is a query`, `If this is a mutation`)
CopiesData(toolName) == toolName \in {"execute_query", "execute_mutation"}

\* mutant: the result is stored under the step id only
updateOperationContextByIdOnly(ctx, step) == (step.id :> step.result) @@ ctx

\* updateOperationContext: the result under the step id, then the top-level
\* data keys of a query or mutation result (later writes win)
updateOperationContext(ctx, step) ==
  LET byId == (step.id :> step.result) @@ ctx
  IN  IF CopiesData(step.toolName)
      THEN DataOf(step.result) @@ byId
      ELSE byId

\* mutant: some instead of every
isOperationCompleteSome(ss) == \E i \in 1..Len(ss) : ss[i].status = "completed"

isOperationComplete(ss) == \A i \in 1..Len(ss) : ss[i].status = "completed"
hasFailedSteps(ss) == \E i \in 1..Len(ss) : ss[i].status = "failed"

\* executeOperationPlan after the loop has ended with no next step
FinalStatus(ss, st) ==
  IF isOperationComplete(ss) THEN "completed"
  ELSE IF hasFailedSteps(ss) THEN "failed"
  ELSE st

\* mutant: the catch block never marks the plan failed
StatusAfterErrorUnchanged(step, st) == st

\* mutant: the catch block marks the plan failed on every step error
StatusAfterErrorAlwaysFailed(step, st) == "failed"

\* executeOperationPlan, catch block: the status the plan is returned with
StatusAfterError(step, st) ==
  IF step.status = "failed" THEN "failed" ELSE st

Snapshot == [steps |-> steps, status |-> status, context |-> context,
             invoked |-> invoked, called |-> TRUE]

\* mutant: executeStep writes the resolved params back into the step
IterationStoringParams(ss, st, ctx) ==
  LET n == getNextExecutableStep(ss)
      processed == processStepParameters(ss[n].params, ctx)
  IN  IF n = 0
      THEN [steps |-> ss, status |-> FinalStatus(ss, st), pc |-> "idle",
            cur |-> 0, invokes |-> FALSE, params |-> << >>]
      ELSE IF processed.threw
      THEN [steps |-> [ss EXCEPT ![n] = FailStep(ss[n], ResolveErrorMessage)],
            status |-> st, pc |-> "rejected", cur |-> n,
            invokes |-> FALSE, params |-> << >>]
      ELSE IF ss[n].toolName \in ShopifyTools
      THEN [steps |-> [ss EXCEPT ![n].status = "running",
                                 ![n].params = processed.params],
            status |-> st, pc |-> "tool", cur |-> n,
            invokes |-> TRUE, params |-> processed.params]
      ELSE [steps |-> [ss EXCEPT ![n] =
                 FailStep(ss[n], IF ss[n].toolName = "web_search"
                                 THEN WebSearchMessage
                                 ELSE UnknownToolMessage)],
            status |-> st, pc |-> "rejected", cur |-> n,
            invokes |-> FALSE, params |-> << >>]

\* One iteration of the while loop of executeOperationPlan, from its top to
\* the next suspension point or to the return, on steps ss with status st
\* and context ctx: the steps and the status it leaves, where the drive is
\* then, the step it selected, and the params it invoked the tool with.
Iteration(ss, st, ctx) ==
  LET n == getNextExecutableStep(ss)
      processed == processStepParameters(ss[n].params, ctx)
  IN  IF n = 0
      THEN [steps |-> ss, status |-> FinalStatus(ss, st), pc |-> "idle",
            cur |-> 0, invokes |-> FALSE, params |-> << >>]
      ELSE IF processed.threw
      THEN \* processStepParameters throws: executeStep runs its catch block
           \* without awaiting and the drive awaits the rejected promise
           [steps |-> [ss EXCEPT ![n] = FailStep(ss[n], ResolveErrorMessage)],
            status |-> st, pc |-> "rejected", cur |-> n,
            invokes |-> FALSE, params |-> << >>]
      ELSE IF ss[n].toolName \in ShopifyTools
      THEN \* executeStep runs to the await of the tool
           [steps |-> [ss EXCEPT ![n].status = "running"],
            status |-> st, pc |-> "tool", cur |-> n,
            invokes |-> TRUE, params |-> processed.params]
      ELSE \* web_search and unknown tools throw without awaiting: executeStep
           \* runs to its end and the drive awaits the rejected promise
           [steps |-> [ss EXCEPT ![n] =
                 FailStep(ss[n], IF ss[n].toolName = "web_search"
                                 THEN WebSearchMessage
                                 ELSE UnknownToolMessage)],
            status |-> st, pc |-> "rejected", cur |-> n,
            invokes |-> FALSE, params |-> << >>]

\* the iteration as a step of the drive of the plan of the engine
Iterate(ss, st, ctx) ==
  LET it == Iteration(ss, st, ctx)
  IN  /\ steps' = it.steps
      /\ status' = it.status
      /\ pc' = it.pc
      /\ cur' = it.cur
      /\ invoked' = IF it.invokes THEN [invoked EXCEPT ![it.cur] = @ + 1]
                    ELSE invoked
      /\ sent' = IF it.invokes THEN [sent EXCEPT ![it.cur] = it.params]
                 ELSE sent

\* ---------------------------------------------------------------- actions

\* mutant: executeOperationPlan starts every drive from an empty context
CallClearingContext ==
  /\ pc = "idle"
  /\ \A i \in 1..Len(steps) : steps[i].retryCount < MaxRetryCount
  /\ before' = Snapshot
  /\ context' = << >>
  /\ Iterate(steps, "executing", << >>)
  /\ UNCHANGED otherVars

\* the caller calls executeOperationPlan(plan)
Call ==
  /\ pc = "idle"
  /\ \A i \in 1..Len(steps) : steps[i].retryCount < MaxRetryCount
  /\ before' = Snapshot
  /\ context' = context
  /\ Iterate(steps, "executing", context)
  /\ UNCHANGED otherVars

\* the awaited tool returns a result without error: executeStep completes
ToolSucceeds ==
  /\ pc = "tool"
  /\ \E r \in Results :
       steps' = [steps EXCEPT ![cur] = CompleteStep(steps[cur], r)]
  /\ pc' = "resolved"
  /\ UNCHANGED <<status, context, cur, invoked, before, sent, otherVars>>

\* the awaited tool fails: executeStep runs its catch block and rethrows
ToolFails ==
  /\ pc = "tool"
  /\ \E k \in FailureKinds :
       steps' = [steps EXCEPT ![cur] = FailStep(steps[cur], MessageOf(k))]
  /\ pc' = "rejected"
  /\ UNCHANGED <<status, context, cur, invoked, before, sent, otherVars>>

\* executeOperationPlan resumes after a fulfilled executeStep: fold, loop
Resume ==
  /\ pc = "resolved"
  /\ context' = updateOperationContext(context, steps[cur])
  /\ before' = before
  /\ Iterate(steps, status, context')
  /\ UNCHANGED otherVars

\* mutant: the catch block rethrows the error of a step that has failed
CatchRethrowing ==
  /\ pc = "rejected"
  /\ status' = StatusAfterError(steps[cur], status)
  /\ pc' = IF steps[cur].status = "failed" THEN "thrown" ELSE "idle"
  /\ cur' = 0
  /\ UNCHANGED <<steps, context, invoked, before, sent, otherVars>>

\* mutant: the catch block goes on with the loop when the step can be retried
CatchContinuing ==
  /\ pc = "rejected"
  /\ IF steps[cur].status = "failed"
     THEN /\ status' = "failed"
          /\ pc' = "idle"
          /\ cur' = 0
          /\ UNCHANGED <<steps, invoked, sent>>
     ELSE Iterate(steps, status, context)
  /\ UNCHANGED <<context, before, otherVars>>

\* executeOperationPlan resumes in its catch block and returns the plan
Catch ==
  /\ pc = "rejected"
  /\ status' = StatusAfterError(steps[cur], status)
  /\ pc' = "idle"
  /\ cur' = 0
  /\ UNCHANGED <<steps, context, invoked, before, sent, otherVars>>

\* ---------------------------------------------------------- initial state

\* the dependsOn lists a caller may attach to step i of an n-step plan
DepChoices(n) ==
  {NoDependsOn}
    \cup {DependsOn(S) : S \in {T \in SUBSET ({CallIds[j] : j \in 1..n} \cup {MissingId}) :
                                   Cardinality(T) <= 1}}

\* params without a placeholder
PlainParams == <<"shop">>

\* the requests a client can have in flight at once
Slots == {1, 2}
\* no cookie; null
NoCookie == 0
NoOperation == 0

\* the locals of a request that is not in flight
FreeRequest ==
  [pc |-> "free", cookie |-> NoCookie, turn |-> 0, chatHistory |-> << >>,
   activeOperation |-> NoOperation, plan |-> NoOperation, cur |-> 0,
   ended |-> "", messages |-> << >>, operation |-> NoOperation,
   aborted |-> FALSE, header |-> NoCookie]

\* the server after start: empty maps, no request
ServerStarted ==
  /\ chatHistories = << >>
  /\ activeOperations = << >>
  /\ plans = << >>
  /\ generated = 0
  /\ client = [cookie |-> NoCookie, sent |-> 0, windows |-> 1]
  /\ reqs = [r \in Slots |-> FreeRequest]
  /\ track = [sequential |-> TRUE, messages |-> << >>]

\* no message is sent
NoSession == flow = "operations" /\ ServerStarted

\* processStepParameters and createOperationPlan are not called on their own
NoPureCall ==
  /\ rin = [params |-> << >>, context |-> << >>]
  /\ rout = [called |-> FALSE, threw |-> FALSE, params |-> << >>]
  /\ bin = << >>
  /\ bout = [called |-> FALSE, threw |-> FALSE, steps |-> << >>,
             status |-> "", context |-> << >>]
  /\ debug = NoDebugInfo
  /\ NoSession

\* the state after createOperationPlan(toolCalls), the caller having set
\* dependsOn of step i to deps[i]
Created(toolCalls, deps) ==
  LET plan == createOperationPlan(toolCalls)
      n == Len(plan.steps)
  IN  /\ steps = [i \in 1..n |-> [plan.steps[i] EXCEPT !.dependsOn = deps[i]]]
      /\ status = plan.status
      /\ context = plan.context
      /\ invoked = [i \in 1..n |-> 0]
      /\ sent = [i \in 1..n |-> << >>]
      /\ pc = "idle"
      /\ cur = 0
      /\ before = [steps |-> steps, status |-> status, context |-> context,
                   invoked |-> invoked, called |-> FALSE]

Init ==
  /\ \E n \in 0..MaxSteps :
       \E names \in [1..n -> ToolNames] :
         \E deps \in [1..n -> DepChoices(n)] :
           Created([i \in 1..n |->
                      ToolCall(CallIds[i], "function", names[i], PlainParams)],
                   deps)
  /\ NoPureCall

Next == Call \/ ToolSucceeds \/ ToolFails \/ Resume \/ Catch

Spec == Init /\ [][Next]_vars

\* ------------------------------------------- plans with data flow
\* The requests of FlowSpec: every awaited tool, params that reference the
\* data of an earlier result or the result itself, and an unknown tool; a
\* mutation depends on the step declared before it.
VariantParams == <<"{", "{", "variantId", "}", "}">>
ResultParams == <<"{", "{", "call_1", "}", "}">>

FlowCalls ==
  {[name |-> "execute_query",     params |-> PlainParams],
   [name |-> "execute_mutation",  params |-> VariantParams],
   [name |-> "introspect_schema", params |-> PlainParams],
   [name |-> "execute_query",     params |-> ResultParams],
   [name |-> "bogus_tool",        params |-> PlainParams]}

FlowDeps(i, call) ==
  IF i > 1 /\ call.name = "execute_mutation"
  THEN DependsOn({CallIds[i - 1]})
  ELSE NoDependsOn

FlowInit ==
  /\ \E n \in 1..MaxSteps :
       \E calls \in [1..n -> FlowCalls] :
         Created([i \in 1..n |->
                    ToolCall(CallIds[i], "function", calls[i].name, calls[i].params)],
                 [i \in 1..n |-> FlowDeps(i, calls[i])])
  /\ NoPureCall

FlowSpec == FlowInit /\ [][Next]_vars

\* ------------------------------------------- every way an attempt fails
\* The awaited tool returns null or undefined: `result.error` throws a
\* TypeError in the try block of executeStep, which runs its catch block.
ToolReturnsNull ==
  /\ pc = "tool"
  /\ steps' = [steps EXCEPT ![cur] = FailStep(steps[cur], NullResultMessage)]
  /\ pc' = "rejected"
  /\ UNCHANGED <<status, context, cur, invoked, before, sent, otherVars>>

\* The requests of FailureSpec, without dependsOn: the first call is of an
\* awaited tool with params that resolve, every later call references the
\* result of the first step (the result of an introspection stays under the
\* step id, and the text it resolves to does not parse).
FailureCalls(i) ==
  IF i = 1
  THEN {[name |-> "execute_query",     params |-> PlainParams],
        [name |-> "introspect_schema", params |-> PlainParams]}
  ELSE {[name |-> "execute_query",     params |-> ResultParams]}

FailureInit ==
  /\ \E n \in 1..MaxSteps :
       \E calls \in [1..n -> UNION {FailureCalls(i) : i \in 1..n}] :
         /\ \A i \in 1..n : calls[i] \in FailureCalls(i)
         /\ Created([i \in 1..n |->
                       ToolCall(CallIds[i], "function", calls[i].name,
                                calls[i].params)],
                    [i \in 1..n |-> NoDependsOn])
  /\ NoPureCall

FailureNext == Next \/ ToolReturnsNull

FailureSpec == FailureInit /\ [][FailureNext]_vars

\* ------------------------------------------------ progress under re-drive
\* The caller of ProgressSpec drives a plan as createOperationPlan returns it
\* (no step has dependsOn) and calls executeOperationPlan again whenever
\* the call has returned with status executing.
ProgressInit ==
  /\ \E n \in 0..MaxSteps :
       \E names \in [1..n -> ToolNames] :
         Created([i \in 1..n |->
                    ToolCall(CallIds[i], "function", names[i], PlainParams)],
                 [i \in 1..n |-> NoDependsOn])
  /\ NoPureCall

\* the first call, and the call after a return with status executing
Redrive ==
  /\ status \in {"planning", "executing"}
  /\ Call

\* the awaited tool returns, with a result or a failure
ToolReturnsToEngine == ToolSucceeds \/ ToolFails

ProgressNext == Redrive \/ ToolReturnsToEngine \/ Resume \/ Catch

\* The caller does call again, every tool invocation returns, and the
\* continuations of the settled promises run.  In every state pc and status
\* enable at most one of the four, so weak fairness of their disjunction is
\* weak fairness of each.
ProgressSpec ==
  /\ ProgressInit
  /\ [][ProgressNext]_vars
  /\ WF_vars(ProgressNext)

\* ------------------------------------- processStepParameters on its own

\* the plan of an empty request, never driven
NoPlan == Created(<< >>, << >>)

\* the characters of the params field, and the one key and the values of
\* the context, of the calls of the model
TemplateAtoms == {"{", "}", "k", Q, "constructor"}
ResolverKeys == {"k"}
ResolverValues == StringValues \cup NumberValues \cup ObjectValues

RECURSIVE TextsUpTo(_)
TextsUpTo(n) ==
  IF n = 0 THEN {<< >>}
  ELSE LET shorter == TextsUpTo(n - 1)
       IN  shorter \cup {Append(t, a) : t \in {u \in shorter : Len(u) = n - 1},
                                         a \in TemplateAtoms}

ResolverContexts ==
  UNION {[K -> ResolverValues] : K \in SUBSET ResolverKeys}

ResolverInit ==
  /\ NoPlan
  /\ \E t \in TextsUpTo(MaxLen), ctx \in ResolverContexts :
       rin = [params |-> t, context |-> ctx]
  /\ rout = [called |-> FALSE, threw |-> FALSE, params |-> << >>]
  /\ bin = << >>
  /\ bout = [called |-> FALSE, threw |-> FALSE, steps |-> << >>,
             status |-> "", context |-> << >>]
  /\ debug = NoDebugInfo
  /\ NoSession

\* processStepParameters(params, context) is called and returns or throws
Resolve ==
  /\ ~rout.called
  /\ rout' = [called |-> TRUE] @@ processStepParameters(rin.params, rin.context)
  /\ UNCHANGED <<engineVars, rin, bin, bout, debug, sessionVars>>

ResolverNext == Resolve

ResolverSpec == ResolverInit /\ [][ResolverNext]_vars

\* --------------------------------------- createOperationPlan on its own

\* the tool calls of a request: calls of type function and of another type,
\* with arguments that are JSON text and arguments that are not
CallTypes == {"function", "other"}
CallNames == {"execute_query", "bogus_tool"}
MalformedArguments == <<"{">>
CallArguments ==
  {StringifyParams(PlainParams), StringifyParams(VariantParams),
   MalformedArguments}

BuildRequests ==
  UNION {{[i \in 1..n |-> [id |-> CallIds[i], type |-> c[i].type,
                           name |-> c[i].name, arguments |-> c[i].arguments]] :
            c \in [1..n -> [type : CallTypes, name : CallNames,
                            arguments : CallArguments]]} :
         n \in 0..MaxSteps}

BuildInit ==
  /\ NoPlan
  /\ rin = [params |-> << >>, context |-> << >>]
  /\ rout = [called |-> FALSE, threw |-> FALSE, params |-> << >>]
  /\ bin \in BuildRequests
  /\ bout = [called |-> FALSE, threw |-> FALSE, steps |-> << >>,
             status |-> "", context |-> << >>]
  /\ debug = NoDebugInfo
  /\ NoSession

\* createOperationPlan(toolCalls, userMessage) is called and returns or throws
Build ==
  /\ ~bout.called
  /\ bout' = IF CreateThrows(bin)
             THEN [called |-> TRUE, threw |-> TRUE, steps |-> << >>,
                   status |-> "", context |-> << >>]
             ELSE [called |-> TRUE, threw |-> FALSE] @@ createOperationPlan(bin)
  /\ UNCHANGED <<engineVars, rin, rout, bin, debug, sessionVars>>

BuildNext == Build

BuildSpec == BuildInit /\ [][BuildNext]_vars

\* ------------------------------------------------------ the message flow
\* One client, the route action and processUserMessage.  An action is the
\* code a request runs between two awaits; an entry of a message list
\* stands for the messages one turn appends, named by the number of the turn.

MaxTurns == 5

\* the tool calls of an assistant response that asks for a tool
ModelCalls ==
  <<ToolCall(CallIds[1], "function", "execute_query", PlainParams)>>

\* executeOperationPlan from the top of an iteration of its loop to the next
\* await of a tool ("tool") or to its return ("final"): the plan it leaves,
\* and nextStep
RunLoop(ss, st, ctx) ==
  LET it == Iteration(ss, st, ctx)
  IN  IF it.pc = "tool"
      THEN [plan |-> [steps |-> it.steps, status |-> it.status, context |-> ctx],
            pc |-> "tool", cur |-> it.cur]
      ELSE IF it.pc = "rejected"
      THEN [plan |-> [steps |-> it.steps,
                      status |-> StatusAfterError(it.steps[it.cur], it.status),
                      context |-> ctx],
            pc |-> "final", cur |-> 0]
      ELSE [plan |-> [steps |-> it.steps, status |-> it.status, context |-> ctx],
            pc |-> "final", cur |-> 0]

getChatHistory(cookie) ==
  IF cookie # NoCookie /\ cookie \in DOMAIN chatHistories
  THEN chatHistories[cookie] ELSE << >>

getActiveOperation(cookie) ==
  IF cookie # NoCookie /\ cookie \in DOMAIN activeOperations
  THEN activeOperations[cookie] ELSE NoOperation

\* session.get("chatId") of the request, or the id generateSessionId returns
ChatIdOf(cookie) == IF cookie # NoCookie THEN cookie ELSE generated + 1
GeneratedAfter(cookie) == IF cookie # NoCookie THEN generated ELSE generated + 1

\* Map.set and Map.delete
MapSet(map, key, value) == (key :> value) @@ map
MapDelete(map, key) == [k \in DOMAIN map \ {key} |-> map[k]]

\* the messages a turn returns: [...chatHistory, the messages of the turn]
FinalMessages(req) == Append(req.chatHistory, req.turn)

\* the client submits a message, with the cookie it holds
Send(r) ==
  /\ reqs[r].pc = "free"
  /\ \A q \in Slots : q < r => reqs[q].pc # "free"
  /\ Cardinality({q \in Slots : reqs[q].pc # "free"}) < client.windows
  /\ client.sent < MaxTurns
  /\ reqs' = [reqs EXCEPT ![r] =
       [FreeRequest EXCEPT !.pc = "getChatHistory", !.cookie = client.cookie,
                           !.turn = client.sent + 1]]
  /\ client' = [client EXCEPT !.sent = @ + 1]
  /\ track' = [track EXCEPT !.sequential =
                 @ /\ \A q \in Slots : reqs[q].pc = "free"]
  /\ UNCHANGED <<engineVars, rin, rout, bin, bout, debug, flow, chatHistories,
                 activeOperations, plans, generated>>

\* action: const chatHistory = await getChatHistory(request)
GetChatHistory(r) ==
  /\ reqs[r].pc = "getChatHistory"
  /\ reqs' = [reqs EXCEPT ![r] =
       [@ EXCEPT !.pc = "getActiveOperation",
                 !.chatHistory = getChatHistory(reqs[r].cookie)]]
  /\ UNCHANGED <<engineVars, rin, rout, bin, bout, debug, flow, chatHistories,
                 activeOperations, plans, generated, client, track>>

\* action: const activeOperation = await getActiveOperation(request), then
\* processUserMessage to its first await: the Responses API call, the
\* return of an aborted operation, the assistant call of continueOperation
\* (operation failed) or of startNewOperation, or the tool of the first
\* step that executeOperationPlan(operation) runs
GetActiveOperation(r) ==
  /\ reqs[r].pc = "getActiveOperation"
  /\ LET op == getActiveOperation(reqs[r].cookie)
         req == [reqs[r] EXCEPT !.activeOperation = op]
     IN  IF flow = "responses" \/ op = NoOperation
         THEN /\ reqs' = [reqs EXCEPT ![r] = [req EXCEPT !.pc = "llm"]]
              /\ plans' = plans
         ELSE \E cancel \in BOOLEAN :
                IF cancel
                THEN /\ reqs' = [reqs EXCEPT ![r] =
                          [req EXCEPT !.pc = "storeChatHistory",
                                      !.messages = FinalMessages(req),
                                      !.aborted = TRUE]]
                     /\ plans' = plans
                ELSE IF plans[op].status \in {"failed", "waiting_for_input"}
                THEN /\ reqs' = [reqs EXCEPT ![r] = [req EXCEPT !.pc = "llm"]]
                     /\ plans' = plans
                ELSE LET run == RunLoop(plans[op].steps, "executing",
                                        plans[op].context)
                     IN  /\ plans' = [plans EXCEPT ![op] = run.plan]
                         /\ reqs' = [reqs EXCEPT ![r] =
                              [req EXCEPT !.pc = run.pc, !.plan = op,
                                          !.cur = run.cur]]
  /\ UNCHANGED <<engineVars, rin, rout, bin, bout, debug, flow, chatHistories,
                 activeOperations, generated, client, track>>

\* the assistant answers the first call of the turn: with text, with tool
\* calls (createOperationPlan, then executeOperationPlan to its first
\* await), or the call throws (the catch of processUserMessage)
ModelResponds(r) ==
  /\ reqs[r].pc = "llm"
  /\ \E answer \in {"text", "tool_calls", "throws"} :
       IF flow = "responses" \/ answer # "tool_calls"
       THEN /\ reqs' = [reqs EXCEPT ![r] =
                 [@ EXCEPT !.pc = "storeChatHistory",
                           !.messages = FinalMessages(reqs[r]),
                           !.operation = NoOperation]]
            /\ plans' = plans
       ELSE LET created == createOperationPlan(ModelCalls)
                run == RunLoop(created.steps, "executing", created.context)
            IN  /\ plans' = Append(plans, run.plan)
                /\ reqs' = [reqs EXCEPT ![r] =
                     [@ EXCEPT !.pc = run.pc, !.plan = Len(plans) + 1,
                               !.cur = run.cur]]
  /\ UNCHANGED <<engineVars, rin, rout, bin, bout, debug, flow, chatHistories,
                 activeOperations, generated, client, track>>

\* the awaited tool of nextStep returns: executeStep completes the step and
\* the loop goes on, or executeStep fails it and the catch block of
\* executeOperationPlan returns
ToolReturns(r) ==
  /\ reqs[r].pc = "tool"
  /\ LET plan == plans[reqs[r].plan]
         n == reqs[r].cur
     IN  \E ok \in BOOLEAN :
           IF ok
           THEN LET ss == [plan.steps EXCEPT ![n] = CompleteStep(@, "res_nodata")]
                    run == RunLoop(ss, plan.status,
                                   updateOperationContext(plan.context, ss[n]))
                IN  /\ plans' = [plans EXCEPT ![reqs[r].plan] = run.plan]
                    /\ reqs' = [reqs EXCEPT ![r] =
                         [@ EXCEPT !.pc = run.pc, !.cur = run.cur]]
           ELSE LET ss == [plan.steps EXCEPT ![n] =
                             FailStep(@, MessageOf("error_result"))]
                IN  /\ plans' = [plans EXCEPT ![reqs[r].plan] =
                          [plan EXCEPT !.steps = ss,
                                       !.status = StatusAfterError(ss[n], @)]]
                    /\ reqs' = [reqs EXCEPT ![r] =
                         [@ EXCEPT !.pc = "final", !.cur = 0]]
  /\ UNCHANGED <<engineVars, rin, rout, bin, bout, debug, flow, chatHistories,
                 activeOperations, generated, client, track>>

\* the assistant words the outcome of the drive (or the call throws) and
\* the turn returns its result: continueOperation returns the plan it built
\* for a failed operation whatever its status, the other paths return null
\* for a completed or failed plan
FinalAnswer(r) ==
  /\ reqs[r].pc = "final"
  /\ \E throws \in BOOLEAN :
       LET req == reqs[r]
           executedStatus == plans[req.plan].status
           replanned == /\ req.activeOperation # NoOperation
                        /\ req.plan # req.activeOperation
           finalOperation ==
             IF throws THEN NoOperation
             ELSE IF replanned THEN req.plan
             ELSE IF executedStatus \in {"completed", "failed"}
                  THEN NoOperation ELSE req.plan
       IN  reqs' = [reqs EXCEPT ![r] =
             [req EXCEPT !.pc = "storeChatHistory", !.ended = executedStatus,
                         !.messages = FinalMessages(req),
                         !.operation = finalOperation]]
  /\ UNCHANGED <<engineVars, rin, rout, bin, bout, debug, flow, chatHistories,
                 activeOperations, plans, generated, client, track>>

\* action: headers["Set-Cookie"] = await storeChatHistory(request, messages)
StoreChatHistory(r) ==
  /\ reqs[r].pc = "storeChatHistory"
  /\ LET chatId == ChatIdOf(reqs[r].cookie)
     IN  /\ chatHistories' = MapSet(chatHistories, chatId, reqs[r].messages)
         /\ generated' = GeneratedAfter(reqs[r].cookie)
         /\ reqs' = [reqs EXCEPT ![r] =
              [@ EXCEPT !.pc = "storeOperation", !.header = chatId]]
  /\ UNCHANGED <<engineVars, rin, rout, bin, bout, debug, flow, activeOperations,
                 plans, client, track>>

\* action: storeActiveOperation(request, result.operation), or
\* clearActiveOperation(request), or neither; each reads the chatId from the
\* cookie of the request and its return value replaces the Set-Cookie header
StoreOperation(r) ==
  /\ reqs[r].pc = "storeOperation"
  /\ LET req == reqs[r]
         chatId == ChatIdOf(req.cookie)
     IN  IF req.operation # NoOperation
         THEN /\ activeOperations' = MapSet(activeOperations, chatId, req.operation)
              /\ generated' = GeneratedAfter(req.cookie)
              /\ reqs' = [reqs EXCEPT ![r] =
                   [req EXCEPT !.pc = "respond", !.header = chatId]]
         ELSE IF req.aborted \/ req.activeOperation # NoOperation
         THEN /\ activeOperations' =
                   IF req.cookie # NoCookie
                   THEN MapDelete(activeOperations, req.cookie)
                   ELSE activeOperations
              /\ generated' = generated
              /\ reqs' = [reqs EXCEPT ![r] =
                   [req EXCEPT !.pc = "respond", !.header = req.cookie]]
         ELSE /\ activeOperations' = activeOperations
              /\ generated' = generated
              /\ reqs' = [reqs EXCEPT ![r] = [req EXCEPT !.pc = "respond"]]
  /\ UNCHANGED <<engineVars, rin, rout, bin, bout, debug, flow, chatHistories,
                 plans, client, track>>

\* the response reaches the client, which keeps the cookie it sets
Respond(r) ==
  /\ reqs[r].pc = "respond"
  /\ client' = [client EXCEPT !.cookie = reqs[r].header]
  /\ track' = [track EXCEPT !.messages = reqs[r].messages]
  /\ reqs' = [reqs EXCEPT ![r] = FreeRequest]
  /\ UNCHANGED <<engineVars, rin, rout, bin, bout, debug, flow, chatHistories,
                 activeOperations, plans, generated>>

SessionInit ==
  /\ NoPlan
  /\ rin = [params |-> << >>, context |-> << >>]
  /\ rout = [called |-> FALSE, threw |-> FALSE, params |-> << >>]
  /\ bin = << >>
  /\ bout = [called |-> FALSE, threw |-> FALSE, steps |-> << >>,
             status |-> "", context |-> << >>]
  /\ debug = NoDebugInfo
  /\ flow \in {"responses", "operations"}
  /\ ServerStarted

SessionNext ==
  \E r \in Slots :
    \/ Send(r)
    \/ GetChatHistory(r)
    \/ GetActiveOperation(r)
    \/ ModelResponds(r)
    \/ ToolReturns(r)
    \/ FinalAnswer(r)
    \/ StoreChatHistory(r)
    \/ StoreOperation(r)
    \/ Respond(r)

SessionSpec == SessionInit /\ [][SessionNext]_vars

\* ----------------------------------------- two requests of one session
\* The session after three turns of the operation flow: the first message
\* made the assistant call a tool, and the tool has failed in each turn, so
\* the plan is stored with its step pending and retryCount = maxRetries.
\* (SessionSpec reaches this state: SessionReachesThreeFailures.)  From
\* here the client sends from two windows.
FailedThrice ==
  LET created == createOperationPlan(ModelCalls)
      failure == MessageOf("error_result")
  IN  [created EXCEPT
         !.steps = <<FailStep(FailStep(FailStep(created.steps[1], failure),
                                       failure), failure)>>,
         !.status = "executing"]

AfterThreeFailures(windows) ==
  /\ flow = "operations"
  /\ chatHistories = (1 :> <<1>>) @@ (2 :> <<2, 3>>)
  /\ activeOperations = (2 :> 1)
  /\ plans = <<FailedThrice>>
  /\ generated = 2
  /\ client = [cookie |-> 2, sent |-> 3, windows |-> windows]
  /\ reqs = [r \in Slots |-> FreeRequest]
  /\ track = [sequential |-> TRUE, messages |-> <<2, 3>>]

SessionReachesThreeFailures == AfterThreeFailures(1)

OverlapInit ==
  /\ NoPlan
  /\ rin = [params |-> << >>, context |-> << >>]
  /\ rout = [called |-> FALSE, threw |-> FALSE, params |-> << >>]
  /\ bin = << >>
  /\ bout = [called |-> FALSE, threw |-> FALSE, steps |-> << >>,
             status |-> "", context |-> << >>]
  /\ debug = NoDebugInfo
  /\ AfterThreeFailures(2)

OverlapSpec == OverlapInit /\ [][SessionNext]_vars

\* ------------------------------------- getOperationDebugInfo on its own
\* A result is opaque; the view tells which fields its _graphql has.
\* callShopifyGraphQL attaches _graphql = {query, variables, response} and
\* executeShopifyQuery and executeShopifyMutation pass it on with the data;
\* the result of introspectShopifySchema has no _graphql.
GraphqlFields == {"query", "variables", "response"}
GraphqlOf(toolName) ==
  IF toolName \in {"execute_query", "execute_mutation"} THEN GraphqlFields ELSE {}

\* step.result as an object: the result and the fields of its _graphql
ResultObject(step) ==
  [value |-> step.result,
   graphql |-> IF step.result \in Results THEN GraphqlOf(step.toolName) ELSE {}]

\* step.result?._graphql ? {...step.result, _graphql: {query, variables}}
\*                        : step.result
DebugResult(step) ==
  LET r == ResultObject(step)
  IN  IF r.graphql # {} THEN [r EXCEPT !.graphql = {"query", "variables"}] ELSE r

\* plan.context[key] as an object: the result a step stored under its id,
\* or a value copied from the data of a result
ContextObject(ss, ctx, key) ==
  LET S == {i \in 1..Len(ss) : /\ ss[i].id = key
                               /\ ss[i].status = "completed"
                               /\ ss[i].result = ctx[key]}
  IN  IF S # {} THEN ResultObject(ss[CHOOSE i \in S : TRUE])
      ELSE [value |-> ctx[key], graphql |-> {}]

\* getOperationDebugInfo(plan): status, the steps with their results cut
\* down, and the context as it is
getOperationDebugInfo(ss, st, ctx) ==
  [status |-> st,
   steps |-> [i \in 1..Len(ss) |->
                [id |-> ss[i].id, toolName |-> ss[i].toolName,
                 status |-> ss[i].status, retryCount |-> ss[i].retryCount,
                 error |-> ss[i].error, result |-> DebugResult(ss[i])]],
   context |-> [key \in DOMAIN ctx |-> ContextObject(ss, ctx, key)]]

\* the drive suspended at run when the awaited tool returns the result r:
\* executeStep completes the step, the loop folds the result and goes on
AfterResult(run, r) ==
  LET ss == [run.plan.steps EXCEPT ![run.cur] = CompleteStep(@, r)]
  IN  RunLoop(ss, run.plan.status,
              updateOperationContext(run.plan.context, ss[run.cur]))

\* ... and when the awaited tools return the results rs, one after the
\* other (each run is computed once: it is bound as the element of a
\* one-element set)
RECURSIVE AfterResults(_, _)
AfterResults(run, rs) ==
  IF rs = << >> \/ run.pc # "tool" THEN run
  ELSE CHOOSE out \in {AfterResults(next, Tail(rs)) :
                         next \in {AfterResult(run, Head(rs))}} : TRUE

\* the plan executeOperationPlan returns when the drive is suspended at run
\* and the awaited tool returns {error}
Rejected(run) ==
  LET ss == [run.plan.steps EXCEPT ![run.cur] =
               FailStep(@, MessageOf("error_result"))]
  IN  [run.plan EXCEPT !.steps = ss,
                       !.status = StatusAfterError(ss[run.cur], @)]

\* the plans the first executeOperationPlan call on a created plan returns
\* when the tools return the results rs and the tool awaited next, if any,
\* returns {error}
Returned(created, rs) ==
  {IF run.pc = "tool" THEN Rejected(run) ELSE run.plan :
     run \in {AfterResults(first, rs) :
               first \in {RunLoop(created.steps, "executing", created.context)}}}

\* the tools of the plans of DebugSpec, called with params without placeholder
DebugTools == {"execute_query", "execute_mutation", "introspect_schema"}

\* the plan of the engine is the plan a first drive returned
DebugPlan ==
  \E n \in 1..MaxSteps :
    \E names \in [1..n -> DebugTools] :
      \E k \in 0..n :
        \E rs \in [1..k -> Results] :
          \E created \in {createOperationPlan(
                             [i \in 1..n |->
                                ToolCall(CallIds[i], "function", names[i],
                                         PlainParams)])} :
            \E plan \in Returned(created, rs) :
              /\ steps = plan.steps
              /\ status = plan.status
              /\ context = plan.context
              /\ invoked = [i \in 1..n |-> IF i <= k + 1 THEN 1 ELSE 0]
              /\ sent = [i \in 1..n |-> IF i <= k + 1 THEN PlainParams ELSE << >>]
              /\ pc = "idle"
              /\ cur = 0
              /\ before = [steps |-> created.steps, status |-> created.status,
                           context |-> created.context,
                           invoked |-> [i \in 1..n |-> 0], called |-> TRUE]

DebugInit == DebugPlan /\ NoPureCall

\* the caller calls getOperationDebugInfo(plan) on the returned plan
GetDebugInfo ==
  /\ ~debug.called
  /\ debug' = [called |-> TRUE] @@ getOperationDebugInfo(steps, status, context)
  /\ UNCHANGED <<engineVars, rin, rout, bin, bout, sessionVars>>

DebugNext == GetDebugInfo

DebugSpec == DebugInit /\ [][DebugNext]_vars

\* ------------------------------------------------------------- properties

N == Len(steps)
\* the states a caller can see: no executeOperationPlan call is in progress
Observable == pc = "idle"
\* the caller has called executeOperationPlan at least once
Driven == before.called
\* no step declares a dependency
Independent == \A i \in 1..N : steps[i].dependsOn.ids = {}
\* every id step i depends on is the id of a completed step of the plan
DepsSatisfied(i) ==
  \A d \in steps[i].dependsOn.ids :
    \E j \in 1..N : steps[j].id = d /\ steps[j].status = "completed"

\* C1: retry bound.  A step of an awaited tool whose invocations have all
\* failed (it is not completed) has status failed exactly when its tool has
\* been invoked maxRetries + 1 times: a pending step has had at most
\* maxRetries invocations, and in no state has the tool been invoked more
\* than maxRetries + 1 times.
RetryBound ==
  \A i \in 1..N :
    (steps[i].toolName \in ShopifyTools /\ steps[i].status # "completed")
      => /\ invoked[i] <= steps[i].maxRetries + 1
         /\ steps[i].status = "failed" => invoked[i] = steps[i].maxRetries + 1
         /\ steps[i].status = "pending" => invoked[i] <= steps[i].maxRetries

\* C2: unknown tool is non-retryable.  Once a step whose toolName is not a
\* registered tool has been attempted, its status is failed (never pending
\* again), and the drive that ran it returns with plan.status = failed.
UnknownToolFailsAtOnce ==
  \A i \in 1..N :
    (steps[i].toolName \notin RegisteredTools /\ steps[i].retryCount > 0)
      => /\ steps[i].status = "failed"
         /\ Observable => status = "failed"

\* C3: driving an already-failed plan is a no-op.  During and after a call
\* of executeOperationPlan on a plan whose status was failed, no tool has
\* been invoked, the steps and the context are as they were at the call,
\* and the plan is returned with status failed.
FailedPlanDriveIsNoOp ==
  (Driven /\ before.status = "failed")
    => /\ invoked = before.invoked
       /\ steps = before.steps
       /\ context = before.context
       /\ Observable => status = "failed"

\* C4: idempotence on completed plans.  A call of executeOperationPlan on a
\* plan whose status is completed returns without suspending, has invoked
\* no tool, and returns the plan as it was passed: same steps (statuses,
\* results, retry counts), same context, status completed.
CompletedPlanDriveIsIdentity ==
  (Driven /\ before.status = "completed")
    => /\ Observable
       /\ invoked = before.invoked
       /\ steps = before.steps
       /\ context = before.context
       /\ status = "completed"

\* C4 witness: a completed plan with a step whose tool ran has been driven
\* again
CompletedPlanDriveIsIdentityWitness ==
  /\ Driven
  /\ before.status = "completed"
  /\ status = "completed"
  /\ \E i \in 1..N : steps[i].status = "completed" /\ invoked[i] > 0

\* C5: fail-fast.  In a plan of independent steps, when an attempt has left
\* a step failed, the drive does nothing more than return the plan with
\* status failed: no step changes, no tool is invoked, and every step
\* declared after the failed one is pending with retryCount 0 and has never
\* had its tool invoked.
FailFastStep ==
  (Independent /\ pc = "rejected" /\ steps[cur].status = "failed")
    => /\ pc' = "idle"
       /\ status' = "failed"
       /\ steps' = steps
       /\ invoked' = invoked
       /\ \A j \in (cur + 1)..N :
            /\ steps'[j].status = "pending"
            /\ steps'[j].retryCount = 0
            /\ invoked'[j] = 0

\* C5: every step of every behaviour is a fail-fast step
FailFast == [][FailFastStep]_vars

\* C5 witness: a drive has returned a plan of independent steps in which a
\* step failed during that drive and the step declared after it is pending
FailFastWitness ==
  /\ Observable
  /\ Driven
  /\ Independent
  /\ status = "failed"
  /\ \E k \in 1..(N - 1) :
       /\ steps[k].status = "failed"
       /\ before.steps[k].status # "failed"
       /\ steps[k + 1].status = "pending"
       /\ invoked[k + 1] = 0

\* C6: step status transitions.  A step changes only by pending -> running,
\* running -> completed, or (from running, or from pending when the attempt
\* fails without suspending) -> pending or failed with retryCount
\* incremented; a completed or failed step never changes again.
AllowedTransition(a, b) ==
  \/ /\ a.status \in {"completed", "failed"}
     /\ b.status = a.status
  \/ /\ b.status = a.status
     /\ b.retryCount = a.retryCount
  \/ /\ a.status = "pending"
     /\ b = [a EXCEPT !.status = "running"]
  \/ /\ a.status = "running"
     /\ b.status = "completed"
     /\ b.retryCount = a.retryCount
  \/ /\ a.status \in {"pending", "running"}
     /\ b.status \in {"pending", "failed"}
     /\ b.retryCount = a.retryCount + 1

\* C6: every step of every behaviour makes only allowed transitions
StepStatusTransitions ==
  [][\A i \in 1..N : AllowedTransition(steps[i], steps'[i])]_vars

\* C7 as stated: in every observable state, also right after
\* createOperationPlan, plan.status is completed iff every step is completed.
CompletedIffAllCompleted ==
  Observable => (status = "completed" <=> isOperationComplete(steps))

\* C7 amended: after each return of executeOperationPlan plan.status is
\* completed iff every step is completed (also for a plan with no steps);
\* before the first drive the status is planning.
CompletedIffAllCompletedAfterDrive ==
  /\ (Observable /\ Driven)
       => (status = "completed" <=> \A i \in 1..N : steps[i].status = "completed")
  /\ ~Driven => status = "planning"

\* C7 witness: a drive has returned a plan whose steps are all completed
CompletedIffAllCompletedWitness ==
  /\ Observable
  /\ Driven
  /\ N >= 1
  /\ status = "completed"
  /\ \A i \in 1..N : steps[i].status = "completed" /\ invoked[i] > 0
  /\ before.status # "completed"

\* C8: in every observable state plan.status is failed iff at least one
\* step is failed; the attempt that leaves a step failed and the return of
\* the failed plan leave the context as it was, and in a failed plan the
\* result of every completed step is still keyed in the context.
FailedIffSomeFailedState ==
  Observable =>
    /\ status = "failed" <=> \E i \in 1..N : steps[i].status = "failed"
    /\ status = "failed" =>
         \A i \in 1..N :
           steps[i].status = "completed" => steps[i].id \in DOMAIN context

FailureKeepsContext ==
  (\/ status' = "failed"
   \/ \E i \in 1..N : steps[i].status # "failed" /\ steps'[i].status = "failed")
    => context' = context

\* C8: the equivalence in every state, the kept context in every step
FailedIffSomeFailed == []FailedIffSomeFailedState /\ [][FailureKeepsContext]_vars

\* C8 witness: a drive has returned a failed plan in which a step completed
\* before another failed, and the completed step's result is in the context
FailedIffSomeFailedWitness ==
  /\ Observable
  /\ status = "failed"
  /\ \E i, k \in 1..N :
       /\ steps[i].status = "completed"
       /\ steps[k].status = "failed"
       /\ context[steps[i].id] = steps[i].result

\* C9: dependency safety.  The step getNextExecutableStep returns, and the
\* step an attempt is in progress on, has every id of its dependsOn naming a
\* completed step of the plan; a step with a missing or uncompleted
\* dependency keeps its status, retryCount and error (it is not failed).
DependencySafetyState ==
  /\ LET n == getNextExecutableStep(steps)
     IN  n # 0 => DepsSatisfied(n)
  /\ pc \in {"tool", "resolved", "rejected"} => DepsSatisfied(cur)

BlockedStepKept ==
  \A i \in 1..N :
    ~DepsSatisfied(i) =>
      /\ steps'[i] = steps[i]
      /\ invoked'[i] = invoked[i]

\* C9: only steps with met dependencies are selected, blocked steps are kept
DependencySafety == []DependencySafetyState /\ [][BlockedStepKept]_vars

\* C9 witness: a step's tool is being awaited while a step declared before
\* it waits, pending and never attempted, on a dependency that is not met
DependencySafetyWitness ==
  /\ pc = "tool"
  /\ \E i \in 1..N :
       /\ i < cur
       /\ steps[i].dependsOn.defined
       /\ ~DepsSatisfied(i)
       /\ steps[i].status = "pending"
       /\ steps[i].retryCount = 0

\* C10: scheduler order.  getNextExecutableStep returns the first step in
\* declaration order that is neither completed nor running and whose
\* dependencies are all completed, and null exactly when no step qualifies.
Qualifies(i) ==
  /\ steps[i].status \notin {"completed", "running"}
  /\ DepsSatisfied(i)

SchedulerOrder ==
  LET n == getNextExecutableStep(steps)
  IN  /\ n \in 0..N
      /\ n = 0 <=> ~\E i \in 1..N : Qualifies(i)
      /\ n # 0 => /\ Qualifies(n)
                  /\ \A j \in 1..(n - 1) : ~Qualifies(j)

\* C10 witness: with the first step completed, the drive has selected the
\* second step, declared without dependsOn, and awaits its tool
SchedulerOrderWitness ==
  /\ pc = "tool"
  /\ cur = 2
  /\ ~steps[2].dependsOn.defined
  /\ steps[1].status = "completed"
  /\ \A j \in 1..N : j > 2 => steps[j].status = "pending"

\* What the resolver is to return for params t: each token {{key}} whose key
\* is a key of the context replaced by the text of context[key], the rest
\* verbatim.
RECURSIVE Substituted(_, _)
Substituted(t, ctx) ==
  IF t = << >> THEN << >>
  ELSE IF MatchesAt(t)
  THEN LET k == MatchKey(t)
       IN  (IF Len(k) = 1 /\ k[1] \in DOMAIN ctx
            THEN ValueText(ctx[k[1]])
            ELSE SubSeq(t, 1, Len(k) + 4))
             \o Substituted(SubSeq(t, Len(k) + 5, Len(t)), ctx)
  ELSE <<Head(t)>> \o Substituted(Tail(t), ctx)

\* C13: resolver on string values.  For a context whose values are strings,
\* processStepParameters returns (it does not throw) the params with each
\* token {{k}}, k a key of the context, replaced by the characters of
\* context[k], every other token and character verbatim; with an empty
\* context it returns the params as they were.
ResolverOnStrings ==
  (rout.called /\ \A k \in DOMAIN rin.context : rin.context[k] \in StringValues)
    => /\ ~rout.threw
       /\ rout.params = Substituted(rin.params, rin.context)
       /\ rin.context = << >> => rout.params = rin.params

\* C14: resolver type preservation.  When the params field is the
\* placeholder {{k}} and context[k] is a number, processStepParameters
\* returns the field holding all the digits of the number.
ResolverOnNumbers ==
  (/\ rout.called
   /\ rin.params = <<"{", "{", "k", "}", "}">>
   /\ "k" \in DOMAIN rin.context
   /\ rin.context["k"] \in NumberValues)
    => /\ ~rout.threw
       /\ rout.params = ValueText(rin.context["k"])

\* the plan of the end-to-end scenario: A is a query without placeholder, B
\* a mutation that depends on A and references {{variantId}}
EndToEndScenario ==
  /\ N = 2
  /\ steps[1].toolName = "execute_query"
  /\ steps[1].params = PlainParams
  /\ steps[2].toolName = "execute_mutation"
  /\ steps[2].params = VariantParams
  /\ steps[2].dependsOn = DependsOn({steps[1].id})

\* C11: end-to-end data flow.  On the plan [A, B] of the scenario, B's tool
\* is invoked only after A's tool has been invoked and A has completed; when
\* A returned {data: {variantId: v}}, the context holds variantId = v and
\* the parameters passed to B's tool are v in place of {{variantId}}; and a
\* drive in which no tool failed returns the plan completed.
EndToEndDataFlow ==
  EndToEndScenario
    => /\ invoked[2] > 0 => (invoked[1] > 0 /\ steps[1].status = "completed")
       /\ (invoked[2] > 0 /\ steps[1].result = "res_data")
            => /\ "variantId" \in DOMAIN context
               /\ context["variantId"] = DataOf("res_data")["variantId"]
               /\ sent[2] = <<DataOf("res_data")["variantId"]>>
       /\ (Observable /\ Driven /\ \A i \in 1..N : steps[i].retryCount = 0)
            => status = "completed"

EndToEndDataFlowWitness ==
  /\ EndToEndScenario
  /\ Observable
  /\ status = "completed"
  /\ steps[1].result = "res_data"
  /\ invoked = <<1, 1>>
  /\ sent[2] = <<"gid_1">>

\* the tools whose result data the claim of C12 is about
DataFolded(tools) ==
  (pc = "resolved" /\ steps[cur].toolName \in tools)
    => LET D == DataOf(steps[cur].result)
       IN  /\ \A k \in DOMAIN D : k \in DOMAIN context' /\ context'[k] = D[k]
           /\ (pc' = "tool" /\ steps'[cur'].params = VariantParams
                 /\ "variantId" \in DOMAIN D)
                => sent'[cur'] = <<D["variantId"]>>

\* C12 as stated: context fold.  When the drive resumes after a step of any
\* awaited tool has completed with {data: D}, every top-level key k of D is
\* in the context with value D[k] from then on, and the next scheduled
\* step's parameters are resolved against that context.
ContextFoldAnyTool == [][DataFolded(ShopifyTools)]_vars

\* C12 amended: the same for a step of execute_query or execute_mutation.
ContextFold == [][DataFolded({"execute_query", "execute_mutation"})]_vars

ContextFoldWitness ==
  /\ pc = "tool"
  /\ cur = 2
  /\ steps[1].toolName = "execute_mutation"
  /\ steps[1].status = "completed"
  /\ steps[1].result = "res_data"
  /\ steps[2].params = VariantParams
  /\ context["variantId"] = "gid_1"
  /\ sent[2] = <<"gid_1">>

\* the catch block of executeOperationPlan returns the plan: the steps and
\* the context as the failed attempt left them, the error on the step
ReturnsPlan ==
  pc = "rejected"
    => /\ pc' = "idle"
       /\ steps' = steps
       /\ context' = context
       /\ steps[cur].error # NoError
       /\ steps[cur].status \in {"pending", "failed"}
       /\ status' = IF steps[cur].status = "failed" THEN "failed" ELSE "executing"

\* C15: executeOperationPlan never propagates an exception.  The drive is
\* only ever idle, awaiting a tool or awaiting the settled attempt, and
\* after every failed attempt (error result, exception or null return of
\* the tool, unknown tool, parse error of the resolved params) the call
\* returns the plan, the failure being recorded as the step's status and
\* error and the plan's status.
NoExceptionPropagates ==
  /\ [](pc \in {"idle", "tool", "resolved", "rejected"})
  /\ [][ReturnsPlan]_vars

NoExceptionPropagatesWitness ==
  /\ Observable
  /\ Driven
  /\ status = "failed"
  /\ \E i \in 1..N : /\ steps[i].status = "failed"
                     /\ steps[i].error = FinalError(ResolveErrorMessage)
                     /\ invoked[i] = 0

\* a failed attempt: the step to the state where the drive awaits the
\* rejected executeStep promise
AttemptFails == pc # "rejected" /\ pc' = "rejected"

\* the failed attempt invokes no tool and leaves the other steps and the
\* context alone (a fold before the attempt is the previous step's)
RetryableFailureLeavesRest ==
  (AttemptFails /\ steps'[cur'].status = "pending")
    => /\ invoked' = invoked
       /\ \A j \in 1..N : j # cur' => steps'[j] = steps[j]
       /\ pc # "resolved" => context' = context

\* after it the drive returns
RetryableFailureReturns ==
  (pc = "rejected" /\ steps[cur].retryCount <= steps[cur].maxRetries)
    => /\ pc' = "idle"
       /\ status' = "executing"
       /\ steps' = steps
       /\ steps'[cur].status = "pending"
       /\ invoked' = invoked
       /\ context' = context

\* C19: a retryable failure ends the drive cycle.  When a step attempt
\* fails with its incremented retryCount <= maxRetries, the call invokes no
\* further tool and returns with plan.status = executing, the failed step
\* pending, and every other step and the context unchanged.
RetryableFailureEndsDrive ==
  [][RetryableFailureLeavesRest /\ RetryableFailureReturns]_vars

RetryableFailureEndsDriveWitness ==
  /\ Observable
  /\ Driven
  /\ status = "executing"
  /\ N = 2
  /\ steps[1].status = "pending"
  /\ steps[1].retryCount = 1
  /\ invoked = <<1, 0>>
  /\ steps[2].status = "pending"

\* the messages an attempt can fail with
FailureMessages ==
  {MessageOf(k) : k \in FailureKinds}
    \cup {WebSearchMessage, UnknownToolMessage, ResolveErrorMessage}

\* what a failed attempt of step i does to it
AttemptPolicy(i) ==
  LET n == steps[i].retryCount + 1
      max == steps[i].maxRetries
  IN  /\ steps'[i].retryCount = n
      /\ n <= max => /\ steps'[i].status = "pending"
                     /\ steps'[i].error.kind = "retry"
                     /\ steps'[i].error.retry = n
                     /\ steps'[i].error.max = max
                     /\ steps'[i].error.message \in FailureMessages
      /\ n > max => /\ steps'[i].status = "failed"
                    /\ steps'[i].error.kind = "final"
                    /\ steps'[i].error.message \in FailureMessages

\* C20: retry policy per attempt.  Every failed attempt of a step increments
\* its retryCount by exactly one (and nothing else changes a retryCount); if
\* the new retryCount <= maxRetries the step becomes pending with the message
\* annotated (retryCount/maxRetries), otherwise it becomes failed with the
\* final message.
RetryPolicy ==
  [][/\ AttemptFails => AttemptPolicy(cur')
     /\ \A i \in 1..N :
          steps'[i].retryCount # steps[i].retryCount
            => AttemptFails /\ cur' = i]_vars

RetryPolicyWitness ==
  /\ pc = "rejected"
  /\ steps[cur].retryCount = steps[cur].maxRetries + 1
  /\ steps[cur].status = "failed"
  /\ steps[cur].error.kind = "final"
  /\ invoked[cur] = steps[cur].maxRetries + 1

\* the step of the claim of C16 for a requested call
BuiltFrom(step, call) ==
  /\ step.id = call.id
  /\ step.toolName = call.name
  /\ step.status = "pending"
  /\ step.retryCount = 0
  /\ step.maxRetries = 3
  /\ ~step.dependsOn.defined

\* C16 as stated: createOperationPlan builds exactly one step per requested
\* call, in request order and with the caller's id, each pending with
\* retryCount 0, maxRetries 3 and no dependsOn, and returns a plan with
\* status planning and an empty context.
BuildsOneStepPerCall ==
  bout.called
    => /\ ~bout.threw
       /\ Len(bout.steps) = Len(bin)
       /\ \A i \in 1..Len(bin) : BuiltFrom(bout.steps[i], bin[i])
       /\ bout.status = "planning"
       /\ bout.context = << >>

\* C16 amended: createOperationPlan throws when the arguments of a call of
\* type function are not JSON text; otherwise it builds exactly one step per
\* requested call of type function, in request order and with the caller's
\* id, each pending with retryCount 0, maxRetries 3 and no dependsOn, and
\* returns a plan with status planning and an empty context.
BuildsOneStepPerFunctionCall ==
  bout.called
    => LET F == {i \in 1..Len(bin) : bin[i].type = "function"}
           Rank(i) == Cardinality({j \in F : j <= i})
       IN  IF \E i \in F : bin[i].arguments = MalformedArguments
           THEN bout.threw
           ELSE /\ ~bout.threw
                /\ Len(bout.steps) = Cardinality(F)
                /\ \A i \in F : BuiltFrom(bout.steps[Rank(i)], bin[i])
                /\ bout.status = "planning"
                /\ bout.context = << >>

BuildsOneStepPerFunctionCallWitness ==
  /\ bout.called
  /\ ~bout.threw
  /\ Len(bin) = 2
  /\ bin[1].type = "other"
  /\ bin[2].type = "function"
  /\ Len(bout.steps) = 1
  /\ bout.steps[1].id = bin[2].id

\* the step in which the route action of request r stores or clears the
\* active operation, after a turn whose driven plan ended completed or failed
TerminalTurnStores(r) ==
  /\ reqs[r].pc = "storeOperation"
  /\ reqs'[r].pc = "respond"
  /\ flow = "operations"
  /\ reqs[r].plan # NoOperation
  /\ reqs[r].ended \in {"completed", "failed"}

\* C17: plan discard.  In the operation flow, a turn whose driven plan ended
\* with status completed or failed returns operation = null, and when the
\* route action has handled that result the plan is not stored as an active
\* operation (and, turns being sequential, the session of the response has
\* no active operation, so the next turn starts without one).
PlanDiscard ==
  [][\A r \in Slots :
       TerminalTurnStores(r)
         => /\ reqs[r].operation = NoOperation
            /\ \A chatId \in DOMAIN activeOperations' :
                 activeOperations'[chatId] # reqs[r].plan
            /\ track.sequential
                 => reqs'[r].header \notin DOMAIN activeOperations']_vars

\* the step in which request r reads the chat history
ReadsHistory(r) ==
  /\ reqs[r].pc = "getChatHistory"
  /\ reqs'[r].pc = "getActiveOperation"

\* C18: conversation context is maintained between messages.  When the
\* client sends its messages one after the other, each with the cookie of
\* the previous response, the chat history a turn reads equals the messages
\* the previous turn returned and stored (none before the first turn),
\* whether or not a turn stored or cleared an active operation.
HistoryMaintained ==
  [][\A r \in Slots :
       (ReadsHistory(r) /\ track.sequential)
         => reqs'[r].chatHistory = track.messages]_vars

\* the steps whose status is running
Running == {i \in 1..N : steps[i].status = "running"}

\* at most one step is running, and it is the step whose tool is awaited
OneRunning ==
  /\ Cardinality(Running) <= 1
  /\ \A i \in Running : pc = "tool" /\ cur = i

\* a tool is invoked when no attempt is in progress: no step is running, the
\* step selected before has completed or the drive has just been called
InvokedBetweenAttempts ==
  \A i \in 1..N :
    invoked'[i] # invoked[i]
      => /\ invoked'[i] = invoked[i] + 1
         /\ \A j \in 1..N : j # i => invoked'[j] = invoked[j]
         /\ Running = {}
         /\ pc \in {"idle", "resolved"}
         /\ pc = "resolved" => steps[cur].status = "completed"
         /\ pc' = "tool"
         /\ cur' = i
         /\ Running' = {i}

\* C23: serial execution within one drive.  While one caller drives a plan,
\* at most one step has status running in any reachable state (the step
\* whose tool the drive awaits), and a step's tool is invoked only after the
\* attempt of the previously selected step has finished.
SerialExecution == []OneRunning /\ [][InvokedBetweenAttempts]_vars

\* C23 witness: the second step's tool is awaited, the first step having
\* completed, and the second step is the only one running
SerialExecutionWitness ==
  /\ pc = "tool"
  /\ cur = 2
  /\ Running = {2}
  /\ steps[1].status = "completed"
  /\ invoked = <<1, 1>>

\* the completed steps are a prefix of the declaration order
CompletedPrefix ==
  \A i, j \in 1..N :
    (i < j /\ steps[j].status = "completed") => steps[i].status = "completed"

\* a step that was ever attempted has only completed steps before it
AttemptedAfterCompleted ==
  \A i, j \in 1..N :
    (i < j /\ (invoked[j] > 0 \/ steps[j].retryCount > 0 \/ steps[j].status # "pending"))
      => steps[i].status = "completed"

\* a tool invocation finds every earlier-declared step completed
InvokedInOrder ==
  \A j \in 1..N :
    invoked'[j] # invoked[j]
      => \A i \in 1..(j - 1) : steps'[i].status = "completed"

\* C26: sequential order without dependencies.  For a plan none of whose
\* steps declares dependsOn, in every reachable state under any sequence of
\* drive calls the completed steps form a prefix of the declaration order,
\* and a step's tool is never invoked (nor the step attempted) while an
\* earlier-declared step is not completed.
DeclarationOrder ==
  /\ [](Independent => (CompletedPrefix /\ AttemptedAfterCompleted))
  /\ [][Independent => InvokedInOrder]_vars

\* C26 witness: a plan of independent steps has been driven more than once,
\* its first step completed after a failed attempt, its second step is awaited
DeclarationOrderWitness ==
  /\ Independent
  /\ N = 2
  /\ pc = "tool"
  /\ cur = 2
  /\ steps[1].status = "completed"
  /\ steps[1].retryCount = 1
  /\ invoked = <<2, 1>>

\* the error of a step is written by a failed attempt of that step only, and
\* a written error is never reset
ErrorKept ==
  \A i \in 1..N :
    /\ steps[i].error # NoError => steps'[i].error # NoError
    /\ steps'[i].error # steps[i].error => (AttemptFails /\ cur' = i)

\* a step that completed after failed attempts carries a result and the
\* annotated message of its last failed attempt
CompletedCarriesError ==
  \A i \in 1..N :
    (steps[i].status = "completed" /\ steps[i].retryCount > 0)
      => /\ steps[i].result \in Results
         /\ \E m \in FailureMessages :
              steps[i].error =
                IF steps[i].retryCount <= steps[i].maxRetries
                THEN RetryError(steps[i].retryCount, steps[i].maxRetries, m)
                ELSE FinalError(m)

\* C30: error persistence.  Once a failed attempt has set step.error, no
\* operation of the engine removes or resets it, the success path included:
\* a step that completes after retries has status completed, a result, and
\* still the error text of its last failed attempt.
ErrorPersistence == []CompletedCarriesError /\ [][ErrorKept]_vars

\* C30 witness: a drive has returned a plan with a step that completed on
\* its third attempt and carries the error of the second
ErrorPersistenceWitness ==
  /\ Observable
  /\ \E i \in 1..N :
       /\ steps[i].status = "completed"
       /\ steps[i].result \in Results
       /\ steps[i].retryCount = 2
       /\ steps[i].error.kind = "retry"
       /\ steps[i].error.retry = 2
       /\ invoked[i] = 3

\* the step an action executes: the one the drive is suspended on after it,
\* or the one whose settled attempt it returns from
Executed == IF pc' = "idle" THEN cur ELSE cur'

\* an action changes at most the status, result, error and retryCount of the
\* step it executes
StepFrame ==
  /\ Len(steps') = Len(steps)
  /\ \A i \in 1..N :
       /\ steps'[i].id = steps[i].id
       /\ steps'[i].toolName = steps[i].toolName
       /\ steps'[i].params = steps[i].params
       /\ steps'[i].dependsOn = steps[i].dependsOn
       /\ steps'[i].maxRetries = steps[i].maxRetries
       /\ steps'[i] # steps[i] => i = Executed

\* the context changes only in the fold that follows a completed attempt,
\* before the next step is selected; a failed attempt leaves it alone
ContextFrame ==
  /\ context' # context
       => /\ pc = "resolved"
          /\ steps[cur].status = "completed"
          /\ context' = updateOperationContext(context, steps[cur])
  /\ pc = "resolved" => context' = updateOperationContext(context, steps[cur])
  /\ (AttemptFails /\ pc # "resolved") => context' = context
  /\ pc = "rejected" => context' = context

\* C25: frame of a step execution.  Executing a step changes only that
\* step's status, result, error and retryCount; its id, toolName, params
\* (the unresolved template), dependsOn and maxRetries, every other step,
\* and the context are unchanged.  The context changes only in the fold
\* that immediately follows a transition to completed; a failed attempt
\* never changes it.
StepExecutionFrame == [][StepFrame /\ ContextFrame]_vars

\* C25 witness: the second step's tool has been invoked with the resolved
\* value while the step still holds its template, and the context holds the
\* fold of the first step
StepExecutionFrameWitness ==
  /\ N = 2
  /\ pc = "tool"
  /\ cur = 2
  /\ steps[2].params = VariantParams
  /\ sent[2] = <<"gid_1">>
  /\ steps[1].status = "completed"
  /\ before.context = << >>
  /\ context = updateOperationContext(<< >>, steps[1])

\* C22: result retained by id.  After any drive, for every completed step s
\* the context holds s.result under s.id, whatever top-level data keys the
\* result of that step or of any other completed step has copied into the
\* context.
ResultRetainedById ==
  (Observable /\ Driven)
    => \A i \in 1..N :
         steps[i].status = "completed"
           => /\ steps[i].id \in DOMAIN context
              /\ context[steps[i].id] = steps[i].result

\* the messages of the four ways an attempt of an awaited tool's step fails
UniformMessages ==
  {MessageOf("error_result"), MessageOf("thrown"), NullResultMessage,
   ResolveErrorMessage}

\* what the catch block of executeStep leaves of step s for message m
Retried(s, m) ==
  LET n == s.retryCount + 1
  IN  [id |-> s.id, toolName |-> s.toolName, params |-> s.params,
       dependsOn |-> s.dependsOn, maxRetries |-> s.maxRetries,
       result |-> NoResult, retryCount |-> n,
       status |-> IF n <= s.maxRetries THEN "pending" ELSE "failed",
       error |-> IF n <= s.maxRetries THEN RetryError(n, s.maxRetries, m)
                 ELSE FinalError(m)]

\* a failed attempt takes the retry path whatever made it fail
FailureTakesRetryPath ==
  AttemptFails
    => /\ \E m \in UniformMessages : steps'[cur'] = Retried(steps[cur'], m)
       /\ steps'[cur'].error.message = ResolveErrorMessage
            => invoked' = invoked

\* a step is completed only with a result of the tool, and a step that is
\* not completed has no result
ResultOnlyOnSuccess ==
  \A i \in 1..N :
    IF steps[i].status = "completed"
    THEN steps[i].result \in Results /\ invoked[i] > 0
    ELSE steps[i].result = NoResult

\* C21: uniform failure classification.  A tool return carrying an error
\* indicator, an exception of the tool, a null or undefined tool return and
\* a parse error of the resolved params all take the same retry path
\* (retryCount incremented, the step pending or failed with the message); none
\* leaves the step completed or stores a result, and the parse error does so
\* without invoking the tool.
UniformFailure == []ResultOnlyOnSuccess /\ [][FailureTakesRetryPath]_vars

\* C21 witness: the first step completed after a null return of its tool,
\* the second step, never invoked, is pending after a parse error
UniformFailureWitness ==
  /\ Observable
  /\ N = 2
  /\ steps[1].status = "completed"
  /\ steps[1].error.message = NullResultMessage
  /\ steps[2].status = "pending"
  /\ steps[2].result = NoResult
  /\ steps[2].error.message = ResolveErrorMessage
  /\ invoked[2] = 0

\* the drive has returned the plan completed or failed
Settled == Observable /\ status \in {"completed", "failed"}

RECURSIVE SumTo(_, _)
SumTo(f, n) == IF n = 0 THEN 0 ELSE f[n] + SumTo(f, n - 1)

\* the tool invocations of all the drives so far
Invocations == SumTo(invoked, N)

\* C27: progress under re-drive.  When the caller calls executeOperationPlan
\* again whenever it returns with status executing and every tool
\* invocation returns, a plan from createOperationPlan reaches status
\* completed or failed after finitely many drives, and the tools are invoked
\* at most steps x (maxRetries + 1) times in total.
ProgressUnderRedrive ==
  /\ <>Settled
  /\ [](Invocations <= N * (MaxRetries + 1))

\* C27 witness: the plan has reached completed after four drives, the tool
\* of its first step having failed as often as it may
ProgressUnderRedriveWitness ==
  /\ Settled
  /\ status = "completed"
  /\ N = 2
  /\ steps[1].retryCount = steps[1].maxRetries
  /\ invoked = <<steps[1].maxRetries + 1, 1>>

\* the results under steps carry at most the query and the variables
DebugStepsBounded ==
  debug.called
    => \A i \in 1..Len(debug.steps) :
         debug.steps[i].result.graphql \subseteq {"query", "variables"}

\* C24: the debug view is bounded.  In the object getOperationDebugInfo
\* returns, the _graphql of a result is limited to query and variables, and
\* the raw upstream response of a tool call appears nowhere in the view,
\* neither under steps nor under context.
DebugViewBounded ==
  debug.called
    => /\ \A i \in 1..Len(debug.steps) :
            debug.steps[i].result.graphql \subseteq {"query", "variables"}
       /\ \A key \in DOMAIN debug.context :
            "response" \notin debug.context[key].graphql

\* the requests whose executeOperationPlan call awaits the tool of step i of
\* plan p
Executing(p, i) ==
  {r \in Slots : reqs[r].pc = "tool" /\ reqs[r].plan = p /\ reqs[r].cur = i}

\* C28: no double dispatch under interleaved drives.  When the calls of
\* executeOperationPlan of two requests of one session interleave on the
\* same plan object, no step is being executed by both at once: every
\* running step is awaited by exactly one call, and every awaited step is
\* running.
NoDoubleDispatch ==
  \A p \in 1..Len(plans) :
    \A i \in 1..Len(plans[p].steps) :
      /\ Cardinality(Executing(p, i)) <= 1
      /\ plans[p].steps[i].status = "running" <=> Executing(p, i) # {}

\* C28 witness: request 1 awaits the tool of the step of the stored plan
\* while the call of request 2 on the same plan object has returned
NoDoubleDispatchWitness ==
  /\ reqs[1].pc = "tool"
  /\ reqs[2].pc = "final"
  /\ reqs[2].plan = reqs[1].plan
  /\ reqs[2].activeOperation = reqs[1].plan
  /\ plans[reqs[1].plan].steps[reqs[1].cur].status = "running"

\* the step in which the executeOperationPlan call of request r returns
DriveReturns(r) == reqs[r].pc # "final" /\ reqs'[r].pc = "final"

\* C29: no step is left running.  Whenever executeOperationPlan returns
\* (the loop ended normally, a retryable failure, a terminal failure) no
\* step of the plan it returns has status running.
NoStepLeftRunning ==
  [][\A r \in Slots :
       DriveReturns(r)
         => \A i \in 1..Len(plans'[reqs'[r].plan].steps) :
              plans'[reqs'[r].plan].steps[i].status # "running"]_vars

\* C29 in the engine on its own, one caller driving the plan
NoStepLeftRunningOneCaller == Observable => Running = {}

====
